---- MODULE Spec2Model ----
(***************************************************************************)
(* nonzero_ext: the traits NonZero and NonZeroAble over the six unsigned   *)
(* non-zero integer types of core::num, src/src/lib.rs.                    *)
(*                                                                         *)
(* A primitive value is the little-endian sequence of its bytes, so every  *)
(* width keeps its own size (a u128 is 16 bytes, a usize ptrBits/8 bytes). *)
(* Calls are executed on a call stack, one frame per function the source   *)
(* enters, so the forwarding chain as_nonzero -> NonZero::new -> core's    *)
(* own constructor is part of the state.                                   *)
(***************************************************************************)
EXTENDS Integers, Sequences, FiniteSets, TLC

VARIABLES
    ptrBits,   \* the target's pointer width, which is the width of usize
    stack,     \* the call stack, innermost frame last
    ret,       \* the value the frame that just finished returned
    status,    \* "idle", "running", "returned" or "fault" (abort)
    call,      \* the caller's current top-level call
    result,    \* what that call returned
    held,      \* the wrapper the caller holds, with the call that made it
    prev,      \* the previous call and its result, when its input was the same
    pushes     \* frames entered since the top-level call began

vars == <<ptrBits, stack, ret, status, call, result, held, prev, pushes>>

-----------------------------------------------------------------------------
(* Bounds of the model *)

MaxSmall == 20    \* the inputs 0..MaxSmall are tried at every width
MaxLen == 3       \* longest vector given to only_nonzeros
MaxStack == 8     \* frames the stack holds before the process aborts

-----------------------------------------------------------------------------
(* The implementations the two macros generate *)

impl_nonzeroness ==
    { [nonzero_type |-> "NonZeroU8",    wrapped |-> "u8"],
      [nonzero_type |-> "NonZeroU16",   wrapped |-> "u16"],
      [nonzero_type |-> "NonZeroU32",   wrapped |-> "u32"],
      [nonzero_type |-> "NonZeroU64",   wrapped |-> "u64"],
      [nonzero_type |-> "NonZeroU128",  wrapped |-> "u128"],
      [nonzero_type |-> "NonZeroUsize", wrapped |-> "usize"] }

\* the invocations with the wrapper of the first line pasted into the second
impl_nonzeroable_pasted ==
    { [nonzero_type |-> "NonZeroU8",    nonzeroable_type |-> "u8"],
      [nonzero_type |-> "NonZeroU8",    nonzeroable_type |-> "u16"],
      [nonzero_type |-> "NonZeroU32",   nonzeroable_type |-> "u32"],
      [nonzero_type |-> "NonZeroU64",   nonzeroable_type |-> "u64"],
      [nonzero_type |-> "NonZeroU128",  nonzeroable_type |-> "u128"],
      [nonzero_type |-> "NonZeroUsize", nonzeroable_type |-> "usize"] }

impl_nonzeroable ==
    { [nonzero_type |-> "NonZeroU8",    nonzeroable_type |-> "u8"],
      [nonzero_type |-> "NonZeroU16",   nonzeroable_type |-> "u16"],
      [nonzero_type |-> "NonZeroU32",   nonzeroable_type |-> "u32"],
      [nonzero_type |-> "NonZeroU64",   nonzeroable_type |-> "u64"],
      [nonzero_type |-> "NonZeroU128",  nonzeroable_type |-> "u128"],
      [nonzero_type |-> "NonZeroUsize", nonzeroable_type |-> "usize"] }

\* the types that implement NonZero, and those that implement NonZeroAble
NonZeroTypes == { e.nonzero_type : e \in impl_nonzeroness }
NonZeroAbleTypes == { e.nonzeroable_type : e \in impl_nonzeroable }

\* type Primitive = $wrapped
Primitive(W) == (CHOOSE e \in impl_nonzeroness : e.nonzero_type = W).wrapped

\* type NonZero = $nonzero_type
NonZero(P) == (CHOOSE e \in impl_nonzeroable : e.nonzeroable_type = P).nonzero_type

-----------------------------------------------------------------------------
(* The primitive types and core::num's wrappers *)

PtrWidths == {16, 32, 64}

Bits(P, ptr) ==
    CASE P = "u8"    -> 8
      [] P = "u16"   -> 16
      [] P = "u32"   -> 32
      [] P = "u64"   -> 64
      [] P = "u128"  -> 128
      [] P = "usize" -> ptr

Bytes(P, ptr) == Bits(P, ptr) \div 8

\* the primitive a wrapper of core::num is declared over
CoreWrapped(W) ==
    CASE W = "NonZeroU8"    -> "u8"
      [] W = "NonZeroU16"   -> "u16"
      [] W = "NonZeroU32"   -> "u32"
      [] W = "NonZeroU64"   -> "u64"
      [] W = "NonZeroU128"  -> "u128"
      [] W = "NonZeroUsize" -> "usize"

IsZero(n) == \A i \in 1..Len(n) : n[i] = 0

None == [tag |-> "None", val |-> <<>>]
Some(w) == [tag |-> "Some", val |-> w]

\* core::num::NonZeroU8::new and its five siblings: the inherent constructor
CoreNew(W, n) == IF IsZero(n) THEN None ELSE Some([type |-> W, bits |-> n])

\* core::num::NonZeroU8::get and its five siblings
CoreGet(w) == w.bits

\* the associated functions a type has of its own; a path such as Self::new
\* names the inherent one before any trait's
InherentFns(W) ==
    IF W \in {"NonZeroU8", "NonZeroU16", "NonZeroU32", "NonZeroU64",
              "NonZeroU128", "NonZeroUsize"}
    THEN {"new", "get"} ELSE {}

-----------------------------------------------------------------------------
(* The inputs tried *)

RECURSIVE Small(_, _)
\* the n bytes of the number k, lowest first
Small(k, n) == IF n = 0 THEN <<>> ELSE <<k % 256>> \o Small(k \div 256, n - 1)
OneHot(j, n) == [i \in 1..n |-> IF i = j THEN 1 ELSE 0]
TopBit(n) == [i \in 1..n |-> IF i = n THEN 128 ELSE 0]
AllOnes(n) == [i \in 1..n |-> 255]

Samples(P, ptr) ==
    LET n == Bytes(P, ptr) IN
        { Small(k, n) : k \in 0..MaxSmall }
        \cup { OneHot(j, n) : j \in 1..n }
        \cup { TopBit(n), AllOnes(n) }

VecElems(P, ptr) ==
    LET n == Bytes(P, ptr) IN { Small(0, n), Small(5, n), Small(20, n), AllOnes(n) }

Vecs(P, ptr) == UNION { [1..l -> VecElems(P, ptr)] : l \in 0..MaxLen }

-----------------------------------------------------------------------------
(* Frames *)

NoRet == [tag |-> "NoRet", val |-> <<>>]
NoHeld == [tag |-> "NoHeld"]
NoPrev == [tag |-> "NoPrev"]
NoCall == [type |-> "none", op |-> "none", arg |-> <<>>]

Frame(f, t, a) ==
    [arg |-> a, fn |-> f, impl |-> t, pc |-> "entry", idx |-> 1, acc |-> <<>>]

Top == stack[Len(stack)]
Below == SubSeq(stack, 1, Len(stack) - 1)

\* n's low byte alone, at n's width: n as u8 as $wrapped
LowByte(n) == [i \in 1..Len(n) |-> IF i = 1 THEN n[1] ELSE 0]

\* new as it would be with the argument cast through u8
NonZero_new_cast(W, n) == Frame("core::new", W, LowByte(n))

\* new as it would be if Self::new named the trait's own method
NonZero_new_recursive(W, n) == Frame("NonZero::new", W, n)

\* new as it would be if it answered only the first call with a given input
NonZero_new_once(W, n) ==
    Frame("core::new", W, IF prev.tag = "Prev" THEN Small(0, Len(n)) ELSE n)

\* Self::new(n) in the impl of NonZero for W
NonZero_new(W, n) ==
    IF "new" \in InherentFns(W)
    THEN Frame("core::new", W, n)
    ELSE Frame("NonZero::new", W, n)

\* get as it would be if the path named the trait's own method
NonZero_get_recursive(W, self) == Frame("NonZero::get", W, self)

\* <$nonzero_type>::get(self) in the impl of NonZero for W
NonZero_get(W, self) ==
    IF "get" \in InherentFns(W)
    THEN Frame("core::get", W, self)
    ELSE Frame("NonZero::get", W, self)

\* as_nonzero as it would be with self cast through u8
as_nonzero_cast(P, self) == Frame("NonZero::new", NonZero(P), LowByte(self))

\* Self::NonZero::new(self) in the impl of NonZeroAble for P
as_nonzero(P, self) == Frame("NonZero::new", NonZero(P), self)

\* the closure of only_nonzeros: |n| n.as_nonzero()
only_nonzeros_item(P, n) == Frame("NonZeroAble::as_nonzero", P, n)

\* filter_map as it would be if it put each result in front
filter_map_front(acc, r) == IF r.tag = "Some" THEN <<r.val>> \o acc ELSE acc

\* filter_map keeps the present results, in order
filter_map(acc, r) == IF r.tag = "Some" THEN Append(acc, r.val) ELSE acc

-----------------------------------------------------------------------------
(* The caller *)

Init ==
    /\ ptrBits \in PtrWidths
    /\ stack = <<>>
    /\ ret = NoRet
    /\ status = "idle"
    /\ call = NoCall
    /\ result = NoRet
    /\ held = NoHeld
    /\ prev = NoPrev
    /\ pushes = 0

Constructs == {"new", "as_nonzero"}

\* the wrapper type a constructing call is to yield
WrapperOf(c) == IF c.op = "new" THEN c.type ELSE NonZero(c.type)

\* the caller goes on from a finished call with the same input again, or
\* with get on the wrapper it was given
Related(c) ==
    /\ status = "returned"
    /\ \/ c.op = "get" /\ call.op \in Constructs \cup {"get"}
       \/ /\ call.op \in Constructs
          /\ c.op \in Constructs
          /\ call.arg = c.arg
          /\ WrapperOf(call) = WrapperOf(c)

\* the call just finished is remembered when the next one has the same input
Remember(c) ==
    IF Related(c) /\ (c.op = "get" => call.op = "get")
    THEN [tag |-> "Prev", call |-> call, result |-> result]
    ELSE NoPrev

Begin(c, f, h) ==
    /\ status = "idle" \/ Related(c)
    /\ call' = c
    /\ stack' = <<f>>
    /\ status' = "running"
    /\ ret' = NoRet
    /\ result' = NoRet
    /\ held' = h
    /\ prev' = Remember(c)
    /\ pushes' = 1
    /\ UNCHANGED ptrBits

CallNew ==
    /\ status \in {"idle", "returned"}
    /\ \E W \in NonZeroTypes :
        \E n \in Samples(Primitive(W), ptrBits) :
            Begin([type |-> W, op |-> "new", arg |-> n],
                  Frame("NonZero::new", W, n), NoHeld)

CallAsNonzero ==
    /\ status \in {"idle", "returned"}
    /\ \E P \in NonZeroAbleTypes :
        \E n \in Samples(P, ptrBits) :
            Begin([type |-> P, op |-> "as_nonzero", arg |-> n],
                  Frame("NonZeroAble::as_nonzero", P, n), NoHeld)

\* the wrappers are Copy: the caller keeps the one it passes to get
CallGet ==
    /\ status = "returned"
    /\ held.tag = "Held"
    /\ Begin([type |-> held.w.type, op |-> "get", arg |-> held.w],
             Frame("NonZero::get", held.w.type, held.w), held)

CallOnlyNonzeros ==
    /\ status = "idle"
    /\ \E P \in NonZeroAbleTypes :
        \E v \in Vecs(P, ptrBits) :
            Begin([type |-> P, op |-> "only_nonzeros", arg |-> v],
                  Frame("only_nonzeros", P, v), NoHeld)

\* the caller drops what it was given
Discard ==
    /\ status = "returned"
    /\ status' = "idle"
    /\ call' = NoCall
    /\ result' = NoRet
    /\ held' = NoHeld
    /\ prev' = NoPrev
    /\ pushes' = 0
    /\ UNCHANGED <<ptrBits, stack, ret>>

Return ==
    /\ status = "running"
    /\ stack = <<>>
    /\ ret.tag # "NoRet"
    /\ result' = ret
    /\ ret' = NoRet
    /\ status' = "returned"
    /\ held' = IF call.op \in Constructs /\ ret.tag = "Some"
               THEN [tag |-> "Held", w |-> ret.val, from |-> call]
               ELSE held
    /\ UNCHANGED <<ptrBits, stack, call, prev, pushes>>

-----------------------------------------------------------------------------
(* The functions, one step per call and per return *)

Running == status = "running" /\ stack # <<>>

At(f, pc) == Running /\ Top.fn = f /\ Top.pc = pc

\* a call: the caller's frame waits, the callee's is entered; a stack that
\* is full aborts the process
Push(f) ==
    IF Len(stack) < MaxStack
    THEN /\ stack' = Append([stack EXCEPT ![Len(stack)].pc = "wait"], f)
         /\ status' = status
         /\ pushes' = pushes + 1
    ELSE /\ stack' = <<>>
         /\ status' = "fault"
         /\ pushes' = pushes

\* a return that hands the callee's value on unchanged
Forward ==
    /\ ret.tag # "NoRet"
    /\ stack' = Below
    /\ UNCHANGED <<ptrBits, ret, status, call, result, held, prev, pushes>>

Leaf(v) ==
    /\ stack' = Below
    /\ ret' = v
    /\ UNCHANGED <<ptrBits, status, call, result, held, prev, pushes>>

AsNonzeroEnter ==
    /\ At("NonZeroAble::as_nonzero", "entry")
    /\ Push(as_nonzero(Top.impl, Top.arg))
    /\ UNCHANGED <<ptrBits, ret, call, result, held, prev>>

AsNonzeroExit == At("NonZeroAble::as_nonzero", "wait") /\ Forward

NewEnter ==
    /\ At("NonZero::new", "entry")
    /\ Push(NonZero_new(Top.impl, Top.arg))
    /\ UNCHANGED <<ptrBits, ret, call, result, held, prev>>

NewExit == At("NonZero::new", "wait") /\ Forward

GetEnter ==
    /\ At("NonZero::get", "entry")
    /\ Push(NonZero_get(Top.impl, Top.arg))
    /\ UNCHANGED <<ptrBits, ret, call, result, held, prev>>

GetExit == At("NonZero::get", "wait") /\ Forward

CoreNewStep == At("core::new", "entry") /\ Leaf(CoreNew(Top.impl, Top.arg))

CoreGetStep ==
    At("core::get", "entry") /\ Leaf([tag |-> "Prim", val |-> CoreGet(Top.arg)])

OnlyNonzerosNext ==
    /\ At("only_nonzeros", "entry")
    /\ Top.idx <= Len(Top.arg)
    /\ Push(only_nonzeros_item(Top.impl, Top.arg[Top.idx]))
    /\ UNCHANGED <<ptrBits, ret, call, result, held, prev>>

OnlyNonzerosCollect ==
    /\ At("only_nonzeros", "wait")
    /\ ret.tag # "NoRet"
    /\ stack' = [stack EXCEPT ![Len(stack)].pc = "entry",
                              ![Len(stack)].idx = @ + 1,
                              ![Len(stack)].acc = filter_map(@, ret)]
    /\ ret' = NoRet
    /\ UNCHANGED <<ptrBits, status, call, result, held, prev, pushes>>

OnlyNonzerosDone ==
    /\ At("only_nonzeros", "entry")
    /\ Top.idx > Len(Top.arg)
    /\ Leaf([tag |-> "Vec", val |-> Top.acc])

Step ==
    \/ AsNonzeroEnter
    \/ AsNonzeroExit
    \/ NewEnter
    \/ NewExit
    \/ GetEnter
    \/ GetExit
    \/ CoreNewStep
    \/ CoreGetStep
    \/ OnlyNonzerosNext
    \/ OnlyNonzerosCollect
    \/ OnlyNonzerosDone
    \/ Return

Next ==
    \/ CallNew
    \/ CallAsNonzero
    \/ CallGet
    \/ CallOnlyNonzeros
    \/ Discard
    \/ Step

Spec == Init /\ [][Next]_vars

-----------------------------------------------------------------------------
(* Properties *)

Done(op) == status = "returned" /\ call.op = op

\* a get that returned, on the wrapper a call of op made
GotFrom(op) == Done("get") /\ held.tag = "Held" /\ held.from.op = op

Wrapper(W, n) == [type |-> W, bits |-> n]

\* C1: at every width, NonZero::new(n) returns, and returns None exactly when
\* n = 0; for every other n it returns Some wrapper of the type it was called on.
C1_NewAbsentIffZero ==
    /\ status # "fault"
    /\ Done("new") =>
        /\ result.tag \in {"None", "Some"}
        /\ result.tag = "None" <=> IsZero(call.arg)
        /\ result.tag = "Some" => result.val.type = call.type

C1_Witness ==
    /\ Done("new")
    /\ call.type = "NonZeroU128"
    /\ call.arg = Small(0, 16)
    /\ result = None

\* C2: at every width and for every nonzero v, 1 and the maximum included,
\* NonZero::new(v) is present and get on the wrapper returns v, every byte of it.
C2_RoundTrip ==
    /\ Done("new") /\ ~IsZero(call.arg) =>
        result.tag = "Some" /\ Len(result.val.bits) = Len(call.arg)
    /\ GotFrom("new") =>
        /\ result.tag = "Prim"
        /\ result.val = held.from.arg

C2_Witness ==
    /\ GotFrom("new")
    /\ held.from.type = "NonZeroU128"
    /\ held.from.arg = AllOnes(16)
    /\ result.val = AllOnes(16)

\* C3: at every width, v.as_nonzero() is None exactly when v = 0, and for every
\* other v it is Some wrapper of the associated type whose get() returns v.
C3_AsNonzero ==
    /\ Done("as_nonzero") =>
        /\ result.tag \in {"None", "Some"}
        /\ result.tag = "None" <=> IsZero(call.arg)
        /\ result.tag = "Some" => result.val.type = NonZero(call.type)
    /\ GotFrom("as_nonzero") =>
        /\ result.tag = "Prim"
        /\ result.val = held.from.arg

C3_Witness ==
    /\ GotFrom("as_nonzero")
    /\ held.from.type = "u64"
    /\ held.from.arg = TopBit(8)
    /\ result.val = TopBit(8)

\* the other way of constructing was used on the same input just before
Compared ==
    /\ status = "returned"
    /\ prev.tag = "Prev"
    /\ call.op \in Constructs
    /\ prev.call.op \in Constructs
    /\ prev.call.op # call.op

\* C4: v.as_nonzero() and NonZero::new(v) of the associated wrapper type agree:
\* both are None, or both are Some with the same type and the same value.
C4_Consistent ==
    Compared =>
        /\ result.tag = prev.result.tag
        /\ result.tag = "Some" =>
            /\ result.val.type = prev.result.val.type
            /\ CoreGet(result.val) = CoreGet(prev.result.val)

C4_Witness ==
    /\ Compared
    /\ call.op = "new"
    /\ prev.call.type = "u32"
    /\ prev.call.arg = OneHot(3, 4)
    /\ result.tag = "Some"

\* the nonzero elements of v, in order, each wrapped
NonZeros(P, v) ==
    LET keep == SelectSeq(v, LAMBDA n : ~IsZero(n))
    IN  [i \in 1..Len(keep) |-> Wrapper(NonZero(P), keep[i])]

RECURSIVE Value(_)
\* the number a byte sequence stands for
Value(b) == IF b = <<>> THEN 0 ELSE b[1] + 256 * Value(Tail(b))

Numbers(ws) == [i \in 1..Len(ws) |-> Value(ws[i].bits)]

\* the vector [0, 20, 5] of whatever width
IsZeroTwentyFive(v) ==
    /\ Len(v) = 3
    /\ v = <<Small(0, Len(v[1])), Small(20, Len(v[1])), Small(5, Len(v[1]))>>

\* C5: only_nonzeros returns the nonzero elements of its input, in their order
\* and as often as they occur, each wrapped unchanged; [0, 20, 5] gives
\* [20, 5] at every width, the 8-bit and the 32-bit alike.
C5_Filter ==
    Done("only_nonzeros") =>
        /\ result.tag = "Vec"
        /\ result.val = NonZeros(call.type, call.arg)
        /\ IsZeroTwentyFive(call.arg) => Numbers(result.val) = <<20, 5>>

C5_Witness ==
    /\ Done("only_nonzeros")
    /\ call.type = "u32"
    /\ call.arg = <<Small(0, 4), Small(20, 4), Small(5, 4)>>
    /\ result.val = <<Wrapper("NonZeroU32", Small(20, 4)),
                      Wrapper("NonZeroU32", Small(5, 4))>>

Supported == {"u8", "u16", "u32", "u64", "u128", "usize"}

\* C6: NonZeroAble::NonZero gives each of the six primitives exactly one
\* wrapper, no two the same; NonZero::Primitive is its inverse; both traits
\* cover the same six widths; the wrapper as_nonzero returns is of that type.
C6_Pairing ==
    /\ NonZeroAbleTypes = Supported
    /\ { Primitive(W) : W \in NonZeroTypes } = Supported
    /\ \A P \in Supported :
        /\ Cardinality({ e \in impl_nonzeroable : e.nonzeroable_type = P }) = 1
        /\ NonZero(P) \in NonZeroTypes
        /\ Primitive(NonZero(P)) = P
    /\ \A P \in Supported : \A Q \in Supported : NonZero(P) = NonZero(Q) => P = Q
    /\ \A W \in NonZeroTypes :
        Cardinality({ e \in impl_nonzeroness : e.nonzero_type = W }) = 1
    /\ Done("as_nonzero") /\ result.tag = "Some" =>
        Primitive(result.val.type) = call.type

C6_Witness ==
    /\ Done("as_nonzero")
    /\ call.type = "usize"
    /\ result.tag = "Some"
    /\ result.val.type = "NonZeroUsize"
    /\ Primitive(result.val.type) = "usize"

OptionWrappers(r) == IF r.tag = "Some" THEN {r.val} ELSE {}

\* every wrapper there is: held, returned, collected, or on its way to get
WrappersInState ==
    OptionWrappers(ret) \cup OptionWrappers(result)
    \cup (IF held.tag = "Held" THEN {held.w} ELSE {})
    \cup (IF result.tag = "Vec" THEN { result.val[i] : i \in 1..Len(result.val) } ELSE {})
    \cup (IF ret.tag = "Vec" THEN { ret.val[i] : i \in 1..Len(ret.val) } ELSE {})
    \cup UNION { { stack[k].acc[i] : i \in 1..Len(stack[k].acc) } : k \in 1..Len(stack) }
    \cup { stack[k].arg : k \in { j \in 1..Len(stack) : stack[j].fn \in {"NonZero::get", "core::get"} } }

WellFormed(w) ==
    /\ ~IsZero(w.bits)
    /\ Len(w.bits) = Bytes(CoreWrapped(w.type), ptrBits)
    /\ \A i \in 1..Len(w.bits) : w.bits[i] \in 0..255

\* C7: every wrapper that new or as_nonzero hands out holds a value in
\* 1..2^W-1; get never returns 0, and a call of get always goes on to return.
C7_NonZeroInvariant ==
    /\ \A w \in WrappersInState : WellFormed(w)
    /\ Done("get") => result.tag = "Prim" /\ ~IsZero(result.val)
    /\ call.op = "get" =>
        /\ status # "fault"
        /\ status = "running" => ENABLED Step

C7_Witness ==
    /\ Done("get")
    /\ held.w = Wrapper("NonZeroU16", TopBit(2))
    /\ result.val = TopBit(2)

\* C8: new and as_nonzero return for every input; what they return that is not
\* a wrapper is None, for input 0 only; nothing aborts or stops half way.
C8_OnlyAbsence ==
    /\ status # "fault"
    /\ status = "running" => ENABLED Step
    /\ status = "returned" /\ call.op \in Constructs =>
        /\ result.tag \in {"None", "Some"}
        /\ result.tag = "None" => IsZero(call.arg)

C8_Witness ==
    /\ Done("as_nonzero")
    /\ call.type = "usize"
    /\ call.arg = AllOnes(Bytes("usize", ptrBits))
    /\ result = Some(Wrapper("NonZeroUsize", call.arg))

\* the same call was made just before
Repeated ==
    /\ status = "returned"
    /\ prev.tag = "Prev"
    /\ prev.call.op = call.op
    /\ prev.call.type = call.type
    /\ prev.call.arg = call.arg

ChainDepth(op) ==
    CASE op = "new" -> 2
      [] op = "get" -> 2
      [] op = "as_nonzero" -> 3
      [] op = "only_nonzeros" -> 4
      [] OTHER -> 0

ChainLength(c) ==
    IF c.op = "only_nonzeros" THEN 1 + 3 * Len(c.arg) ELSE ChainDepth(c.op)

\* C10: as_nonzero enters NonZero::new, which enters core's constructor and not
\* itself: no function is on the stack twice, the stack of a call is at most
\* as deep as its chain, a call enters a bounded number of frames, and a call
\* that is running can always take its next step.
C10_Terminates ==
    /\ status # "fault"
    /\ Len(stack) <= ChainDepth(call.op)
    /\ pushes <= ChainLength(call)
    /\ \A i \in 1..Len(stack) : \A j \in 1..Len(stack) :
        stack[i].fn = stack[j].fn => i = j
    /\ status = "running" => ENABLED Step
    /\ status = "returned" => stack = <<>> /\ pushes = ChainLength(call)

C10_Witness ==
    /\ Done("as_nonzero")
    /\ pushes = 3
    /\ call.arg = Small(5, 1)
    /\ result.tag = "Some"

====
